---- MODULE Spec2Model ----
(***************************************************************************)
(* A model of rtrace (src/src/main.rs): the vector algebra, the sphere     *)
(* intersection, the world aggregation, the recursive ray_color estimator  *)
(* and the render / display / event loop of main.                          *)
(*                                                                         *)
(* f32 values are modelled as IEEE-754 binary32: a value is the triple     *)
(* <<sign, biased exponent, fraction>> of its encoding, so 1.0 is          *)
(* <<0, 127, 0>> and 0.5 is <<0, 126, 0>>.  Sums, products, quotients and  *)
(* square roots are computed on the significands and rounded to nearest,   *)
(* ties to even, with subnormals, signed zeros, infinities and NaN as in   *)
(* IEEE-754; every NaN is the one quiet NaN <<0, 255, 2^22>>.              *)
(***************************************************************************)
EXTENDS Integers, Sequences, FiniteSets, TLC

----------------------------------------------------------------------------
(* f32 *)

(* Op applied to the values of its arguments, each evaluated once. *)
Strict1(Op(_), a) == CHOOSE r \in {Op(x) : x \in {a}} : TRUE
Strict2(Op(_, _), a, b) == CHOOSE r \in {Op(x, y) : x \in {a}, y \in {b}} : TRUE
Strict3(Op(_, _, _), a, b, c) ==
    CHOOSE r \in {Op(x, y, z) : x \in {a}, y \in {b}, z \in {c}} : TRUE

Pow2(k) == 2 ^ k
Abs(a) == IF a < 0 THEN -a ELSE a

(* The fields of a binary32 value: sign, biased exponent, fraction. *)
Bias == 127
ExpSpecial == 255
Hidden == Pow2(23)

F32(s, e, f) == <<s, e, f>>
Zero(s) == F32(s, 0, 0)
Inf(s) == F32(s, ExpSpecial, 0)
NaN == F32(0, ExpSpecial, Pow2(22))

IsNaN(a) == a[2] = ExpSpecial /\ a[3] # 0
IsInf(a) == a[2] = ExpSpecial /\ a[3] = 0
IsZero(a) == a[2] = 0 /\ a[3] = 0
SignXor(a, b) == (a[1] + b[1]) % 2

(* A finite value is Man * 2^(Exp - 150); subnormals have no hidden bit. *)
Exp(a) == IF a[2] = 0 THEN 1 ELSE a[2]
Man(a) == IF a[2] = 0 THEN a[3] ELSE Hidden + a[3]

(* The magnitude as an integer that orders as the values do. *)
Mag(a) == a[2] * Hidden + a[3]
Key(a) == IF a[1] = 0 THEN Mag(a) ELSE -Mag(a)

(* <<e, m>> with the significand 0 < m < 2^24 shifted up to 24 bits. *)
Normalize(e, m) ==
    Strict2(LAMBDA x, k : <<e - k, x * Pow2(k)>>,
            m, CHOOSE k \in 0..23 : m >= Pow2(23 - k) /\ m < Pow2(24 - k))

Unpack(a) == Normalize(Exp(a), Man(a))

(* What lies below the kept bits, against half a unit in the last place:   *)
(* 0 nothing, 1 less than half, 2 exactly half, 3 more than half.          *)
Sticky(rem, half, g) ==
    IF rem > half \/ (rem = half /\ g > 0) THEN 3
    ELSE IF rem = half THEN 2
    ELSE IF rem > 0 \/ g > 0 THEN 1
    ELSE 0

(* A result below the normal range is shifted down to exponent 1. *)
Denormalize(e, m, g) ==
    IF e >= 1 THEN <<e, m, g>>
    ELSE IF 1 - e > 24 THEN <<1, 0, 1>>
    ELSE <<1, m \div Pow2(1 - e), Sticky(m % Pow2(1 - e), Pow2(-e), g)>>

Pack(s, e, m) ==
    IF m = 2 * Hidden THEN (IF e + 1 >= ExpSpecial THEN Inf(s) ELSE F32(s, e + 1, 0))
    ELSE IF e >= ExpSpecial THEN Inf(s)
    ELSE IF m < Hidden THEN F32(s, 0, m)
    ELSE F32(s, e, m - Hidden)

(* Round to nearest, ties to even, and encode. *)
RoundPack(s, e, m, g) ==
    Strict1(LAMBDA t :
        Pack(s, t[1], IF t[3] = 3 \/ (t[3] = 2 /\ t[2] % 2 = 1) THEN t[2] + 1 ELSE t[2]),
        Denormalize(e, m, g))

(* The 48-bit product of two 24-bit significands as <<high, low>> halves. *)
MulWide(ma, mb) ==
    Strict2(LAMBDA cross, low :
        Strict1(LAMBDA lofull :
            << (ma \div 4096) * (mb \div 4096) + cross \div 4096 + lofull \div Pow2(24),
               lofull % Pow2(24) >>,
            low + (cross % 4096) * 4096),
        (ma \div 4096) * (mb % 4096) + (ma % 4096) * (mb \div 4096),
        (ma % 4096) * (mb % 4096))

MulFinite(s, p, q) ==
    Strict1(LAMBDA w :
        IF w[1] >= Hidden
        THEN RoundPack(s, p[1] + q[1] - 126, w[1], Sticky(w[2], Pow2(23), 0))
        ELSE RoundPack(s, p[1] + q[1] - 127, 2 * w[1] + w[2] \div Pow2(23),
                       Sticky(w[2] % Pow2(23), Pow2(22), 0)),
        MulWide(p[2], q[2]))

FMul(a, b) ==
    Strict2(LAMBDA x, y :
        IF IsNaN(x) \/ IsNaN(y) THEN NaN
        ELSE IF IsInf(x) \/ IsInf(y)
             THEN (IF IsZero(x) \/ IsZero(y) THEN NaN ELSE Inf(SignXor(x, y)))
        ELSE IF IsZero(x) \/ IsZero(y) THEN Zero(SignXor(x, y))
        ELSE Strict2(LAMBDA p, q : MulFinite(SignXor(x, y), p, q), Unpack(x), Unpack(y)),
        a, b)

(* m shifted right by d places, the bits shifted out kept as a sticky bit. *)
ShiftRightSticky(m, d) ==
    IF d > 27 THEN (IF m = 0 THEN 0 ELSE 1)
    ELSE IF m % Pow2(d) # 0 /\ (m \div Pow2(d)) % 2 = 0 THEN m \div Pow2(d) + 1
    ELSE m \div Pow2(d)

(* <<e, r>> with the working significand 0 < r < 2^28 brought into         *)
(* [2^26, 2^27).                                                           *)
Normalize27(e, r) ==
    Strict1(LAMBDA y :
        IF y >= Pow2(27) THEN <<e + 1, ShiftRightSticky(y, 1)>>
        ELSE Strict1(LAMBDA k : <<e - k, y * Pow2(k)>>,
                     CHOOSE k \in 0..26 : y >= Pow2(26 - k) /\ y < Pow2(27 - k)),
        r)

(* big + small for finite non-zero operands with |big| >= |small|. *)
AddFinite(big, small) ==
    Strict1(LAMBDA r :
        IF r = 0 THEN Zero(0)
        ELSE Strict1(LAMBDA t :
                 RoundPack(big[1], t[1], t[2] \div 8, Sticky(t[2] % 8, 4, 0)),
                 Normalize27(Exp(big), r)),
        IF big[1] = small[1]
        THEN 8 * Man(big) + ShiftRightSticky(8 * Man(small), Exp(big) - Exp(small))
        ELSE 8 * Man(big) - ShiftRightSticky(8 * Man(small), Exp(big) - Exp(small)))

FAdd(a, b) ==
    Strict2(LAMBDA x, y :
        IF IsNaN(x) \/ IsNaN(y) THEN NaN
        ELSE IF IsInf(x) THEN (IF IsInf(y) /\ y[1] # x[1] THEN NaN ELSE x)
        ELSE IF IsInf(y) THEN y
        ELSE IF IsZero(x) /\ IsZero(y) THEN (IF x[1] = y[1] THEN x ELSE Zero(0))
        ELSE IF IsZero(x) THEN y
        ELSE IF IsZero(y) THEN x
        ELSE IF Mag(x) >= Mag(y) THEN AddFinite(x, y) ELSE AddFinite(y, x),
        a, b)

FNeg(a) == Strict1(LAMBDA x : IF IsNaN(x) THEN NaN ELSE F32(1 - x[1], x[2], x[3]), a)

FSub(a, b) == FAdd(a, FNeg(b))

(* <<q, r>>: the quotient and remainder of n * 2^k by d, for n < d < 2^24. *)
RECURSIVE LongDiv(_, _, _, _)
LongDiv(q, r, d, k) ==
    Strict3(LAMBDA x, y, c :
        IF c = 0 THEN <<x, y>>
        ELSE IF c >= 6 THEN LongDiv(64 * x + (64 * y) \div d, (64 * y) % d, d, c - 6)
        ELSE LongDiv(Pow2(c) * x + (Pow2(c) * y) \div d, (Pow2(c) * y) % d, d, 0),
        q, r, k)

DivSticky(rem, d) ==
    IF rem = 0 THEN 0 ELSE IF 2 * rem < d THEN 1 ELSE IF 2 * rem = d THEN 2 ELSE 3

DivFinite(s, p, q) ==
    IF p[2] >= q[2]
    THEN Strict1(LAMBDA w : RoundPack(s, p[1] - q[1] + 127, w[1], DivSticky(w[2], q[2])),
                 LongDiv(1, p[2] - q[2], q[2], 23))
    ELSE Strict1(LAMBDA w : RoundPack(s, p[1] - q[1] + 126, w[1], DivSticky(w[2], q[2])),
                 LongDiv(0, p[2], q[2], 24))

FDiv(a, b) ==
    Strict2(LAMBDA x, y :
        IF IsNaN(x) \/ IsNaN(y) THEN NaN
        ELSE IF IsInf(x) THEN (IF IsInf(y) THEN NaN ELSE Inf(SignXor(x, y)))
        ELSE IF IsInf(y) THEN Zero(SignXor(x, y))
        ELSE IF IsZero(y) THEN (IF IsZero(x) THEN NaN ELSE Inf(SignXor(x, y)))
        ELSE IF IsZero(x) THEN Zero(SignXor(x, y))
        ELSE Strict2(LAMBDA p, q : DivFinite(SignXor(x, y), p, q), Unpack(x), Unpack(y)),
        a, b)

(* The integer square root of m2 * 4^11 for 2^24 <= m2 < 2^26, digit by    *)
(* digit: the 13 bits of the root of m2, then 4, 4 and 3 more bits, as     *)
(* <<root, remainder>>.                                                    *)
SqrtTop(m2) ==
    CHOOSE a \in 64..127 :
        (64 * a) * (64 * a) <= m2 /\ m2 < (64 * (a + 1)) * (64 * (a + 1))

SqrtLow(m2, a) ==
    CHOOSE d \in 0..63 :
        (64 * a + d) * (64 * a + d) <= m2 /\ m2 < (64 * a + d + 1) * (64 * a + d + 1)

SqrtExtend(st, b) ==
    Strict2(LAMBDA q, r :
        Strict1(LAMBDA d : <<q * Pow2(b) + d, r * Pow2(2 * b) - d * (2 * q * Pow2(b) + d)>>,
                CHOOSE d \in 0..(Pow2(b) - 1) :
                    /\ d * (2 * q * Pow2(b) + d) <= r * Pow2(2 * b)
                    /\ r * Pow2(2 * b) < (d + 1) * (2 * q * Pow2(b) + d + 1)),
        st[1], st[2])

SqrtDigits(m2) ==
    Strict1(LAMBDA q : SqrtExtend(SqrtExtend(SqrtExtend(<<q, m2 - q * q>>, 4), 4), 3),
            Strict1(LAMBDA a : 64 * a + SqrtLow(m2, a), SqrtTop(m2)))

(* sqrt of m * 2^(e - 150), 2^23 <= m < 2^24; e is odd exactly when the    *)
(* unbiased exponent is even.                                              *)
SqrtFinite(e, m) ==
    IF (e + 256) % 2 = 1
    THEN Strict1(LAMBDA w :
             RoundPack(0, (e + 127) \div 2, w[1],
                       IF w[2] = 0 THEN 0 ELSE IF w[2] > w[1] THEN 3 ELSE 1),
             SqrtDigits(2 * m))
    ELSE Strict1(LAMBDA w :
             RoundPack(0, (e + 126) \div 2, w[1],
                       IF w[2] = 0 THEN 0 ELSE IF w[2] > w[1] THEN 3 ELSE 1),
             SqrtDigits(4 * m))

FSqrt(a) ==
    Strict1(LAMBDA x :
        IF IsNaN(x) THEN NaN
        ELSE IF IsZero(x) THEN x
        ELSE IF x[1] = 1 THEN NaN
        ELSE IF IsInf(x) THEN x
        ELSE Strict1(LAMBDA p : SqrtFinite(p[1], p[2]), Unpack(x)),
        a)

FLt(a, b) == Strict2(LAMBDA x, y : ~IsNaN(x) /\ ~IsNaN(y) /\ Key(x) < Key(y), a, b)
FGt(a, b) == Strict2(LAMBDA x, y : ~IsNaN(x) /\ ~IsNaN(y) /\ Key(x) > Key(y), a, b)
FGe(a, b) == Strict2(LAMBDA x, y : ~IsNaN(x) /\ ~IsNaN(y) /\ Key(x) >= Key(y), a, b)
FLe(a, b) == Strict2(LAMBDA x, y : ~IsNaN(x) /\ ~IsNaN(y) /\ Key(x) <= Key(y), a, b)

(* f32::min: the other operand when one is NaN, and the first operand when *)
(* the two compare equal (for zeros of opposite sign Rust leaves the       *)
(* choice open; the build returns the first).                              *)
FMin(a, b) ==
    Strict2(LAMBDA x, y :
        IF IsNaN(x) THEN y ELSE IF IsNaN(y) THEN x
        ELSE IF Key(y) < Key(x) THEN y ELSE x, a, b)

(* An integer of magnitude below 2^24 converted with `as f32`. *)
FromInt(k) ==
    IF k = 0 THEN Zero(0)
    ELSE Strict1(LAMBDA p : RoundPack(IF k < 0 THEN 1 ELSE 0, p[1], p[2], 0),
                 Normalize(150, Abs(k)))

(* The f32 literal num/den: the binary32 value nearest to the quotient. *)
Lit(num, den) == FDiv(FromInt(num), FromInt(den))

----------------------------------------------------------------------------
(* Vector *)

Vec(a, b, c) == [x |-> a, y |-> b, z |-> c]

dot(a, b) ==
    Strict2(LAMBDA p, q :
        FAdd(FAdd(FMul(p.x, q.x), FMul(p.y, q.y)), FMul(p.z, q.z)), a, b)

sqnorm(w) == Strict1(LAMBDA p : dot(p, p), w)

norm(w) == FSqrt(sqnorm(w))

VecDiv(w, f) ==
    Strict2(LAMBDA p, g : Vec(FDiv(p.x, g), FDiv(p.y, g), FDiv(p.z, g)), w, f)

unit(w) == Strict1(LAMBDA p : VecDiv(p, norm(p)), w)

VecAdd(a, b) ==
    Strict2(LAMBDA p, q : Vec(FAdd(p.x, q.x), FAdd(p.y, q.y), FAdd(p.z, q.z)), a, b)

VecSub(a, b) ==
    Strict2(LAMBDA p, q : Vec(FSub(p.x, q.x), FSub(p.y, q.y), FSub(p.z, q.z)), a, b)

VecScale(f, w) ==
    Strict2(LAMBDA g, p : Vec(FMul(g, p.x), FMul(g, p.y), FMul(g, p.z)), f, w)

----------------------------------------------------------------------------
(* Ray, Hit, Sphere, World *)

RayNew(origin, direction) == [origin |-> origin, direction |-> unit(direction)]

RayLit(origin, direction) == [origin |-> origin, direction |-> direction]

RayAt(ray, t) == VecAdd(ray.origin, VecScale(t, ray.direction))

HitNew(t, p, n) == [t |-> t, p |-> p, n |-> unit(n)]

Sphere(center, radius) == [center |-> center, radius |-> radius]

(* let eps = 1E-3 *)
EPS == Lit(1, 1000)

NoHit == [kind |-> "None"]
SomeHit(h) == [kind |-> "Some", hit |-> h]
Panic == [kind |-> "Panic"]

(* The half-b quadratic of Sphere::hit: its discriminant and its roots. *)
HitB(sphere, ray) == dot(ray.direction, VecSub(ray.origin, sphere.center))

HitC(sphere, ray) ==
    FSub(sqnorm(VecSub(ray.origin, sphere.center)),
         FMul(sphere.radius, sphere.radius))

Discriminant(sphere, ray) ==
    Strict2(LAMBDA b, c : FSub(FMul(b, b), c), HitB(sphere, ray), HitC(sphere, ray))

RootT1(sphere, ray) ==
    FAdd(FNeg(HitB(sphere, ray)), FSqrt(Discriminant(sphere, ray)))

RootT2(sphere, ray) ==
    FSub(FNeg(HitB(sphere, ray)), FSqrt(Discriminant(sphere, ray)))

(* The match of Sphere::hit on (t1 >= eps, t2 >= eps); the last arm is the *)
(* unreachable!() one.                                                     *)
SelectRoot(t1, t2) ==
    CASE ~FGe(t1, EPS) /\ FGe(t2, EPS)  -> [kind |-> "Root", t |-> t2]
      [] FGe(t1, EPS) /\ ~FGe(t2, EPS)  -> [kind |-> "Root", t |-> t1]
      [] FGe(t1, EPS) /\ FGe(t2, EPS)   -> [kind |-> "Root", t |-> FMin(t1, t2)]
      [] OTHER                          -> [kind |-> "Unreachable"]

(* The Hit built at the chosen root: p = ray.at(t), n = p - center. *)
HitAtRoot(sphere, ray, t) ==
    Strict1(LAMBDA p : HitNew(t, p, VecSub(p, sphere.center)), RayAt(ray, t))

SphereHit(sphere, ray) ==
    IF FLt(Discriminant(sphere, ray), Zero(0)) THEN NoHit
    ELSE Strict2(LAMBDA t1, t2 :
            IF FLt(t1, EPS) /\ FLt(t2, EPS) THEN NoHit
            ELSE Strict1(LAMBDA sel :
                    IF sel.kind = "Unreachable" THEN Panic
                    ELSE SomeHit(HitAtRoot(sphere, ray, sel.t)),
                    SelectRoot(t1, t2)),
            RootT1(sphere, ray), RootT2(sphere, ray))

(* objects.iter().map(hit).filter(is_some).map(unwrap).collect() *)
HitResults(objects, ray) == [k \in 1..Len(objects) |-> SphereHit(objects[k], ray)]

RECURSIVE CollectHits(_)
CollectHits(results) ==
    IF results = <<>> THEN <<>>
    ELSE IF Head(results).kind = "Some"
         THEN <<Head(results).hit>> \o CollectHits(Tail(results))
         ELSE CollectHits(Tail(results))

(* Nearer with >= for >: on equal t the later hit replaces the earlier. *)
Nearer_LastOnTie(a, b) == IF FGe(a.t, b.t) THEN b ELSE a

(* The closure of the fold in World::hit. *)
Nearer(a, b) == IF FGt(a.t, b.t) THEN b ELSE a

RECURSIVE FoldNearest(_, _)
FoldNearest(acc, hits) ==
    IF hits = <<>> THEN acc
    ELSE FoldNearest(Nearer(acc, Head(hits)), Tail(hits))

(* World::hit on the results of the objects, in insertion order. *)
NearestOf(objectResults) ==
    Strict1(LAMBDA results :
        IF \E k \in 1..Len(results) : results[k].kind = "Panic" THEN Panic
        ELSE Strict1(LAMBDA hits :
                IF hits = <<>> THEN NoHit
                ELSE SomeHit(FoldNearest(hits[1], hits)),
                CollectHits(results)),
        objectResults)

WorldHit(objects, ray) == NearestOf(HitResults(objects, ray))

----------------------------------------------------------------------------
(* Shading *)

HALF == Lit(1, 2)
ONE == FromInt(1)

Blue == Vec(Lit(1, 2), Lit(7, 10), FromInt(1))
White == Vec(FromInt(1), FromInt(1), FromInt(1))
Black == Vec(Zero(0), Zero(0), Zero(0))

background_color(ray) ==
    Strict1(LAMBDA t : VecAdd(VecScale(FSub(ONE, t), White), VecScale(t, Blue)),
            FMul(HALF, FAdd(ray.direction.y, ONE)))

(* ChildDepth without the decrement. *)
ChildDepth_Same(depth) == depth

(* Attenuate without the halving. *)
Attenuate_None(color) == color

(* The base case of ray_color and the depth handed to the recursive call. *)
DepthExhausted(depth) == depth = 0

ChildDepth(depth) == depth - 1

(* The factor applied to the value the recursive call returns. *)
Attenuate(color) == VecScale(HALF, color)

----------------------------------------------------------------------------
(* Window, viewport and rendering parameters (scaled down from 500 x 500   *)
(* pixels and 100 samples per pixel).                                      *)

IMAGE_WIDTH == 2
IMAGE_HEIGHT == 2
SAMPLES_PER_PIXEL == 2
MaxDepth == 2
MaxEvents == 2

ASPECT_RATIO == FDiv(FromInt(IMAGE_WIDTH), FromInt(IMAGE_HEIGHT))
VIEWPORT_WIDTH == FromInt(2)
VIEWPORT_HEIGHT == FDiv(VIEWPORT_WIDTH, ASPECT_RATIO)
VIEWPORT_FOCUS_DISTANCE == FromInt(1)

OG == Vec(Zero(0), Zero(0), Zero(0))
EX == Vec(FromInt(1), Zero(0), Zero(0))
EY == Vec(Zero(0), FromInt(1), Zero(0))
EZ == Vec(Zero(0), Zero(0), FromInt(1))

(* Values rand::random::<f32>() returns, all in [0, 1): the jitter of a    *)
(* pixel sample (in the evaluation of ray_color taken alone, and in the    *)
(* sampling passes of main) and the components of a random_unit candidate. *)
PixelJitter == {Zero(0), Lit(1, 2)}
SampleJitter == {Lit(1, 2)}
RandomF32 == {Zero(0), Lit(3, 4)}

(* The primary ray main casts through pixel (i, j) with jitter (ru, rv). *)
PrimaryRay(i, j, ru, rv) ==
    LET pu == FDiv(FAdd(FromInt(j), ru), FSub(FromInt(IMAGE_WIDTH), ONE))
        pv == FDiv(FAdd(FromInt(i), rv), FSub(FromInt(IMAGE_HEIGHT), ONE))
        px == FMul(FSub(pu, HALF), VIEWPORT_WIDTH)
        py == FMul(FSub(pv, HALF), VIEWPORT_HEIGHT)
    IN  RayNew(OG, VecSub(VecSub(VecAdd(VecScale(px, EX), VecScale(py, EY)),
                                 VecScale(VIEWPORT_FOCUS_DISTANCE, EZ)), OG))

(* Scenes: the two spheres of main (the ball, and the ground of radius 100 *)
(* below it), the ball alone, the ball inside an enclosing sphere, and the *)
(* ball with a sphere tangent to the central ray at the ball's nearest     *)
(* point.                                                                  *)
Ball == Sphere(Vec(Zero(0), Zero(0), FromInt(-1)), Lit(1, 2))
Ground == Sphere(Vec(Zero(0), Lit(-201, 2), FromInt(-1)), FromInt(100))
Dome == Sphere(Vec(Zero(0), Zero(0), FromInt(-1)), FromInt(3))
Tangent == Sphere(Vec(Zero(0), Lit(-3, 2), Lit(-1, 2)), Lit(3, 2))

Worlds ==
    { <<>>, <<Ball>>, <<Ball, Ground>>, <<Ball, Dome>>,
      <<Ball, Tangent>>, <<Tangent, Ball>> }

----------------------------------------------------------------------------

VARIABLES
    pc, n, i, j, image, samples, drawn, divisor, displays, events, polled,
    rc, world, stack, hitRes, hitRay, v, value, nhits, depth0, missed

mainVars == <<pc, n, i, j, image, samples, drawn, divisor, displays, events, polled>>
traceVars == <<rc, world, stack, hitRes, hitRay, v, value, nhits, depth0, missed>>
vars == <<mainVars, traceVars>>

----------------------------------------------------------------------------
(* One evaluation of ray_color for a pixel sample, step by step. *)

Top == stack[Len(stack)]

Uninit == [kind |-> "Uninit"]

TraceIdle ==
    /\ rc = "idle" /\ world = <<>> /\ stack = <<>>
    /\ hitRes = Uninit /\ hitRay = RayLit(OG, OG) /\ v = OG /\ value = OG
    /\ nhits = 0 /\ depth0 = 0 /\ missed = Uninit

(* ray_color is entered: the depth == 0 test. *)
RayColorEnter ==
    /\ rc = "call"
    /\ IF DepthExhausted(Top.depth)
       THEN /\ value' = Black
            /\ rc' = "ret"
       ELSE /\ rc' = "hit"
            /\ UNCHANGED value
    /\ UNCHANGED <<world, stack, hitRes, hitRay, v, nhits, depth0, missed>>
    /\ UNCHANGED mainVars

(* let hit = world.hit(ray), and the miss branch background_color(ray). *)
WorldHitStep ==
    /\ rc = "hit"
    /\ \E r \in {WorldHit(world, Top.ray)} :
           /\ hitRes' = r
           /\ hitRay' = Top.ray
           /\ nhits' = nhits + 1
           /\ CASE r.kind = "Panic" ->
                     /\ rc' = "panic"
                     /\ UNCHANGED <<value, missed>>
                [] r.kind = "None" ->
                     /\ rc' = "ret"
                     /\ value' = background_color(Top.ray)
                     /\ missed' = [kind |-> "Miss", k |-> nhits, ray |-> Top.ray]
                [] OTHER ->
                     /\ rc' = "random_unit"
                     /\ UNCHANGED <<value, missed>>
    /\ UNCHANGED <<world, stack, v, depth0>>
    /\ UNCHANGED mainVars

(* One iteration of the loop of Vector::random_unit: a candidate is drawn  *)
(* and rejected (continue) or accepted (v.unit() is about to be called).   *)
RandomUnitDraw ==
    /\ rc = "random_unit"
    /\ \E a \in RandomF32, b \in RandomF32, c \in RandomF32 :
          /\ v' = Vec(a, b, c)
          /\ rc' = IF FGe(sqnorm(v'), ONE) THEN "random_unit" ELSE "unit"
    /\ UNCHANGED <<world, stack, hitRes, hitRay, value, nhits, depth0, missed>>
    /\ UNCHANGED mainVars

(* return v.unit(); d = h.n + random_unit(); the recursive call on         *)
(* Ray{origin: h.p, direction: d} with depth - 1.                          *)
Bounce ==
    /\ rc = "unit"
    /\ \E d \in {VecAdd(hitRes.hit.n, unit(v))} :
          stack' = Append(stack, [ray |-> RayLit(hitRes.hit.p, d),
                                  depth |-> ChildDepth(Top.depth)])
    /\ rc' = "call"
    /\ UNCHANGED <<world, hitRes, hitRay, v, value, nhits, depth0, missed>>
    /\ UNCHANGED mainVars

(* A call of ray_color returns: the caller, if any, halves the value and   *)
(* returns it in turn.                                                     *)
Return ==
    /\ rc = "ret"
    /\ IF Len(stack) = 1
       THEN /\ rc' = "done"
            /\ UNCHANGED value
       ELSE /\ rc' = "ret"
            /\ value' = Attenuate(value)
    /\ stack' = SubSeq(stack, 1, Len(stack) - 1)
    /\ UNCHANGED <<world, hitRes, hitRay, v, nhits, depth0, missed>>
    /\ UNCHANGED mainVars

MainOff ==
    /\ pc = "off" /\ n = 0 /\ i = 0 /\ j = 0
    /\ image = <<>> /\ samples = <<>> /\ drawn = <<>>
    /\ divisor = 0 /\ displays = 0 /\ events = <<>> /\ polled = "none"

TraceInit ==
    /\ MainOff
    /\ world \in Worlds
    /\ depth0 \in 0..MaxDepth
    /\ \E pi \in 0..(IMAGE_HEIGHT - 1), pj \in 0..(IMAGE_WIDTH - 1),
          ru \in PixelJitter, rv \in PixelJitter :
          stack = << [ray |-> PrimaryRay(pi, pj, ru, rv), depth |-> depth0] >>
    /\ rc = "call"
    /\ hitRes = Uninit /\ hitRay = RayLit(OG, OG) /\ v = OG /\ value = OG
    /\ nhits = 0 /\ missed = Uninit

TraceNext == RayColorEnter \/ WorldHitStep \/ RandomUnitDraw \/ Bounce \/ Return

TraceSpec == TraceInit /\ [][TraceNext]_vars

TraceFair == TraceSpec /\ WF_vars(TraceNext)

----------------------------------------------------------------------------
(* main: the sampling passes, the display step and the event loop.  The    *)
(* call of ray_color, modelled step by step above, appears here by its     *)
(* outcome: a colour, or the panic of the unreachable!() arm.              *)

Rows == 0..(IMAGE_HEIGHT - 1)
Cols == 0..(IMAGE_WIDTH - 1)

RECURSION_DEPTH == MaxDepth

(* The world main builds: the ball and the ground. *)
MainWorld == <<Ball, Ground>>

Color(c) == [kind |-> "Color", color |-> c]

(* The candidates of random_unit that pass the sqnorm test. *)
Accepted ==
    {w \in {Vec(a, b, c) : a \in RandomF32, b \in RandomF32, c \in RandomF32} :
        ~FGe(sqnorm(w), ONE)}

(* What a call of ray_color that ends can end with, over the values the    *)
(* random source returns: a colour, or the panic of the unreachable!() arm. *)
RECURSIVE RayColorOutcomes(_, _, _)
RayColorOutcomes(ray, objects, depth) ==
    Strict3(LAMBDA r, objs, d :
        IF DepthExhausted(d) THEN {Color(Black)}
        ELSE Strict1(LAMBDA h :
                 IF h.kind = "Panic" THEN {Panic}
                 ELSE IF h.kind = "None" THEN {Color(background_color(r))}
                 ELSE UNION {
                        { IF o.kind = "Panic" THEN Panic ELSE Color(Attenuate(o.color)) :
                            o \in RayColorOutcomes(
                                     RayLit(h.hit.p, VecAdd(h.hit.n, unit(w))),
                                     objs, ChildDepth(d)) } :
                        w \in Accepted },
                 WorldHit(objs, r)),
        ray, objects, depth)

(* The outcomes of the call of ray_color main makes for pixel (row, col). *)
PixelOutcomes ==
    [r \in Rows |-> [c \in Cols |->
        UNION { RayColorOutcomes(PrimaryRay(r, c, ru, rv), MainWorld, RECURSION_DEPTH) :
                  ru \in SampleJitter, rv \in SampleJitter }]]

(* The colours a call of ray_color can return to main for pixel (row, col). *)
SampleColors(row, col) ==
    {o.color : o \in {p \in PixelOutcomes[row][col] : p.kind = "Color"}}

EventTypes == {"Quit", "KeyDown"}

(* `as u8` of an f32: truncating, saturating, NaN to 0. *)
ToU8(a) ==
    Strict1(LAMBDA x :
        IF IsNaN(x) \/ x[1] = 1 \/ IsZero(x) THEN 0
        ELSE IF Exp(x) >= 150 THEN 255
        ELSE IF 150 - Exp(x) > 24 THEN 0
        ELSE IF Man(x) \div Pow2(150 - Exp(x)) >= 255 THEN 255
        ELSE Man(x) \div Pow2(150 - Exp(x)), a)

to_rgb(vec) ==
    << ToU8(FMul(FromInt(255), FSqrt(vec.x))),
       ToU8(FMul(FromInt(255), FSqrt(vec.y))),
       ToU8(FMul(FromInt(255), FSqrt(vec.z))) >>

(* The divisor render_image applies to every cell. *)
RenderDivisor == SAMPLES_PER_PIXEL

(* The point render_image draws cell (row, col) at. *)
ScreenX(col) == col
ScreenY(row) == IMAGE_HEIGHT - row

(* PassDone at the end of every row: render_image inside the row loop. *)
PassDone_Row(row, col) == col = IMAGE_WIDTH - 1

(* The end of the two inner loops: the last pixel of a pass was sampled. *)
PassDone(row, col) == row = IMAGE_HEIGHT - 1 /\ col = IMAGE_WIDTH - 1

(* IsQuit matching every event. *)
IsQuit_Any(e) == TRUE

IsQuit(e) == e = "Quit"

Init ==
    /\ pc = "render" /\ n = 0 /\ i = 0 /\ j = 0
    /\ image = [r \in Rows |-> [c \in Cols |-> Black]]
    /\ samples = [r \in Rows |-> [c \in Cols |-> 0]]
    /\ drawn = <<>> /\ divisor = 0 /\ displays = 0
    /\ events = <<>> /\ polled = "none"
    /\ TraceIdle

(* The body of the innermost loop: image[i][j] += ray_color(...). *)
Sample ==
    /\ pc = "render"
    /\ \E o \in PixelOutcomes[i][j] :
          IF o.kind = "Panic"
          THEN /\ pc' = "panicked"
               /\ UNCHANGED <<i, j, image, samples>>
          ELSE /\ image' = [image EXCEPT ![i][j] = VecAdd(@, o.color)]
               /\ samples' = [samples EXCEPT ![i][j] = @ + 1]
               /\ IF PassDone(i, j)
                  THEN pc' = "display" /\ UNCHANGED <<i, j>>
                  ELSE /\ pc' = "render"
                       /\ j' = IF j + 1 < IMAGE_WIDTH THEN j + 1 ELSE 0
                       /\ i' = IF j + 1 < IMAGE_WIDTH THEN i ELSE i + 1
    /\ UNCHANGED <<n, drawn, divisor, displays, events, polled>>
    /\ UNCHANGED traceVars

(* render_image(&image, &mut canvas) at the end of pass n. *)
RenderImage ==
    /\ pc = "display"
    /\ drawn' = [k \in 1..(IMAGE_HEIGHT * IMAGE_WIDTH) |->
                   LET r == (k - 1) \div IMAGE_WIDTH
                       c == (k - 1) % IMAGE_WIDTH
                   IN  [row |-> r, col |-> c,
                        x |-> ScreenX(c), y |-> ScreenY(r),
                        color |-> to_rgb(VecDiv(image[r][c], FromInt(RenderDivisor)))]]
    /\ divisor' = RenderDivisor
    /\ displays' = displays + 1
    /\ n' = n + 1
    /\ IF n + 1 < SAMPLES_PER_PIXEL
       THEN pc' = "render" /\ i' = 0 /\ j' = 0
       ELSE pc' = "poll" /\ UNCHANGED <<i, j>>
    /\ UNCHANGED <<image, samples, events, polled>>
    /\ UNCHANGED traceVars

(* The window system queues an event (at any time while the program runs). *)
Deliver ==
    /\ pc \in {"render", "display", "poll"}
    /\ Len(events) < MaxEvents
    /\ \E e \in EventTypes : events' = Append(events, e)
    /\ UNCHANGED <<pc, n, i, j, image, samples, drawn, divisor, displays, polled>>
    /\ UNCHANGED traceVars

(* One event taken from event_pump.poll_iter() in the 'main loop. *)
PollEvent ==
    /\ pc = "poll"
    /\ events # <<>>
    /\ polled' = Head(events)
    /\ events' = Tail(events)
    /\ pc' = IF IsQuit(Head(events)) THEN "exited" ELSE "poll"
    /\ UNCHANGED <<n, i, j, image, samples, drawn, divisor, displays>>
    /\ UNCHANGED traceVars

Next == Sample \/ RenderImage \/ Deliver \/ PollEvent

Spec == Init /\ [][Next]_vars

FairSpec == Spec /\ WF_vars(PollEvent)

----------------------------------------------------------------------------
(* Properties *)

(* Unit norm up to the rounding of f32: within 1e-5 of 1. *)
UnitTol == Lit(1, 100000)

IsUnitNorm(w) ==
    Strict1(LAMBDA m : FLe(FSub(m, ONE), UnitTol) /\ FLe(FSub(ONE, m), UnitTol),
            norm(w))

Terminated == rc \in {"done", "panic"}

(* C1: every ray that ray_color passes to World.hit (and, on a miss, to    *)
(* background_color), the primary ray and every bounce ray, has a          *)
(* direction of unit norm.                                                 *)
C1_UnitDirections == rc = "hit" => IsUnitNorm(Top.ray.direction)

(* C2: at the display step that follows the k-th sampling pass the divisor *)
(* render_image applies is k, the number of passes completed.              *)
C2_DivisorIsPassCount == displays >= 1 => divisor = displays

(* The case analysis C3 gives for one evaluation of Sphere.hit. *)
SphereHitAsClaimed(sphere, ray) ==
    LET r == SphereHit(sphere, ray)
        t1 == RootT1(sphere, ray)
        t2 == RootT2(sphere, ray)
        valid == {t \in {t1, t2} : FGe(t, EPS)}
    IN  /\ r.kind # "Panic"
        /\ IF FLt(Discriminant(sphere, ray), Zero(0)) \/ (FLt(t1, EPS) /\ FLt(t2, EPS))
           THEN r = NoHit
           ELSE /\ r.kind = "Some"
                /\ r.hit.t \in valid
                /\ \A t \in valid : FLe(r.hit.t, t)
                /\ FGe(r.hit.t, EPS)

(* C3: Sphere.hit returns None when the discriminant is negative or both   *)
(* roots are below eps, and otherwise a Hit whose t is the smallest root   *)
(* that is >= eps; the unreachable!() arm is never executed.               *)
C3_SphereHitCases ==
    hitRes # Uninit =>
        \A k \in 1..Len(world) : SphereHitAsClaimed(world[k], hitRay)

(* The objects of the world that return a hit for the ray. *)
ObjHits(objects, ray) ==
    {k \in 1..Len(objects) : SphereHit(objects[k], ray).kind = "Some"}

Perms(objects) ==
    {p \in [1..Len(objects) -> 1..Len(objects)] :
        \A a, b \in 1..Len(objects) : a # b => p[a] # p[b]}

(* C4: when World.hit returns, it returns None exactly when no object      *)
(* returns a hit; otherwise it returns the hit of the earliest-inserted    *)
(* object among those whose t is the minimum over all objects' hits, and   *)
(* the t returned is the same for every insertion order of the objects.    *)
C4_WorldHitNearest ==
    hitRes.kind \in {"None", "Some"} =>
        Strict1(LAMBDA res :
            LET hs == {k \in 1..Len(res) : res[k].kind = "Some"}
            IN  /\ hitRes.kind = "None" <=> hs = {}
                /\ hitRes.kind = "Some" =>
                      \E k \in hs :
                         /\ hitRes.hit = res[k].hit
                         /\ \A m \in hs : FLe(res[k].hit.t, res[m].hit.t)
                         /\ \A m \in hs : m < k => res[m].hit.t # res[k].hit.t
                /\ \A p \in Perms(world) :
                      Strict1(LAMBDA r :
                          /\ r.kind = hitRes.kind
                          /\ r.kind = "Some" => r.hit.t = hitRes.hit.t,
                          NearestOf([k \in 1..Len(res) |-> res[p[k]]])),
            HitResults(world, hitRay))

(* Two objects hit at the same t with different hit records, the first of  *)
(* them returned.                                                          *)
C4_Witness ==
    /\ hitRes.kind = "Some"
    /\ \E k, m \in ObjHits(world, hitRay) :
          /\ k < m
          /\ SphereHit(world[k], hitRay).hit.t = SphereHit(world[m], hitRay).hit.t
          /\ SphereHit(world[k], hitRay).hit # SphereHit(world[m], hitRay).hit
          /\ hitRes.hit = SphereHit(world[k], hitRay).hit

(* The recursion of ray_color: each call below the first has a depth one   *)
(* smaller than its caller's, so at most depth calls nest below the first  *)
(* and World.hit is evaluated at most depth times.                         *)
C5_Bounds ==
    /\ \A k \in 1..Len(stack) : stack[k].depth = depth0 - (k - 1)
    /\ Len(stack) <= depth0 + 1
    /\ nhits <= depth0

(* C5 as stated: ray_color terminates for every sequence of values the     *)
(* random source returns, within the bounds above.                         *)
C5_AlwaysTerminates == [](C5_Bounds) /\ <>Terminated

(* C5 as amended: the recursion keeps within the bounds above, and         *)
(* ray_color terminates unless a call of random_unit rejects every         *)
(* candidate it draws from then on.                                        *)
C5_TerminatesUnlessRejecting ==
    [](C5_Bounds) /\ (<>Terminated \/ <>[](rc = "random_unit"))

(* World.hit was evaluated depth times, the most the bound allows. *)
C5_Witness == rc = "done" /\ depth0 = MaxDepth /\ nhits = depth0

RECURSIVE HalfPow(_)
HalfPow(k) == IF k = 0 THEN ONE ELSE FMul(HALF, HalfPow(k - 1))

(* C6: the value ray_color returns is black when depth is 0 and when the   *)
(* ray and its bounce rays hit the world depth times in a row; when the    *)
(* first miss comes after k < depth hits it is 0.5^k times the             *)
(* background_color of the ray that missed.                                *)
C6_ValueOfChain ==
    rc = "done" =>
        IF depth0 = 0 THEN value = Black /\ nhits = 0
        ELSE IF missed = Uninit THEN value = Black /\ nhits = depth0
        ELSE /\ missed.k < depth0
             /\ value = VecScale(HalfPow(missed.k), background_color(missed.ray))

(* A miss after at least one bounce, returning a colour that is not black. *)
C6_Witness ==
    /\ rc = "done"
    /\ missed # Uninit
    /\ missed.k >= 1
    /\ value # Black

(* C7: a frame-buffer cell changes only by += of one ray_color result, in  *)
(* the sampling step of its own pixel; when render_image is called every   *)
(* cell has received as many samples as passes were sampled; render_image  *)
(* is called once per pass, never within a pass, and SAMPLES_PER_PIXEL     *)
(* times by the time the render loop is left.                              *)
C7_OneSamplePerPass ==
    /\ [](/\ displays = n
          /\ pc = "display" => \A r \in Rows, c \in Cols : samples[r][c] = n + 1
          /\ pc = "render" =>
                \A r \in Rows, c \in Cols :
                   samples[r][c] = IF r < i \/ (r = i /\ c < j) THEN n + 1 ELSE n
          /\ pc \in {"poll", "exited"} =>
                /\ displays = SAMPLES_PER_PIXEL
                /\ \A r \in Rows, c \in Cols : samples[r][c] = SAMPLES_PER_PIXEL)
    /\ [][ /\ \A r \in Rows, c \in Cols :
                image'[r][c] # image[r][c] =>
                   /\ pc = "render" /\ r = i /\ c = j
                   /\ \E col \in SampleColors(r, c) :
                         image'[r][c] = VecAdd(image[r][c], col)
           /\ displays' # displays =>
                /\ displays' = displays + 1
                /\ pc = "display"
                /\ image' = image ]_vars

(* The last display step: every cell holds SAMPLES_PER_PIXEL samples. *)
C7_Witness ==
    /\ pc = "poll"
    /\ displays = SAMPLES_PER_PIXEL
    /\ \A r \in Rows, c \in Cols :
          samples[r][c] = SAMPLES_PER_PIXEL /\ image[r][c] # Black

(* C8: events are polled only after all SAMPLES_PER_PIXEL passes and       *)
(* display steps, so a Quit queued during rendering stays queued; once     *)
(* polling, the program exits exactly when it polls a Quit, any other      *)
(* event leaves it polling, and a queued Quit leads to the exit.           *)
C8_QuitOnlyWhenPolled ==
    /\ [](pc \in {"poll", "exited"} =>
              n = SAMPLES_PER_PIXEL /\ displays = SAMPLES_PER_PIXEL)
    /\ [][ /\ (polled' # polled \/ Len(events') < Len(events)) => pc = "poll"
           /\ (pc' = "exited" /\ pc # "exited") =>
                 pc = "poll" /\ events # <<>> /\ Head(events) = "Quit"
           /\ (pc = "poll" /\ events # <<>> /\ events' = Tail(events)) =>
                 (pc' = "exited" <=> Head(events) = "Quit")
           /\ (pc = "poll" /\ events # <<>> /\ events' = Tail(events)
                 /\ Head(events) # "Quit") => pc' = "poll" ]_vars
    /\ ((pc = "poll" /\ \E k \in 1..Len(events) : events[k] = "Quit")
           ~> (pc = "exited"))

(* The program has exited on polling a Quit, after the last display step. *)
C8_Witness ==
    /\ pc = "exited"
    /\ polled = "Quit"
    /\ displays = SAMPLES_PER_PIXEL

(* C9: every candidate random_unit accepts has a non-zero norm, and the    *)
(* vector it returns has unit norm.                                        *)
C9_AcceptedNonZero ==
    rc = "unit" => (~IsZero(norm(v)) /\ IsUnitNorm(unit(v)))

(* C10: render_image draws cell (i, j) inside the window, buffer row 0 on  *)
(* the bottom screen row and row IMAGE_HEIGHT - 1 on the top one, every    *)
(* screen pixel exactly once per call.                                     *)
C10_FlippedOntoWindow ==
    displays >= 1 =>
        /\ \A k \in 1..Len(drawn) :
              /\ drawn[k].x \in 0..(IMAGE_WIDTH - 1)
              /\ drawn[k].y \in 0..(IMAGE_HEIGHT - 1)
              /\ drawn[k].row = 0 => drawn[k].y = IMAGE_HEIGHT - 1
              /\ drawn[k].row = IMAGE_HEIGHT - 1 => drawn[k].y = 0
        /\ \A x \in 0..(IMAGE_WIDTH - 1), y \in 0..(IMAGE_HEIGHT - 1) :
              Cardinality({k \in 1..Len(drawn) :
                              drawn[k].x = x /\ drawn[k].y = y}) = 1

====
